---- MODULE Spec2Model ----
(***************************************************************************)
(* Rate-limited, idempotent ticket queue: the submission flow              *)
(* (controllers/job_controller.py), the fixed-window rate limiter          *)
(* (services/rate_limiter.py), the idempotency lookup                      *)
(* (services/idempotency.py), the job store operations                     *)
(* (services/job_service.py), the scheduler (services/scheduler.py), the   *)
(* worker loop (worker/worker.py) and the startup recovery (main.py).      *)
(*                                                                         *)
(* Request handlers run on a thread pool, so each handler is a sequence of *)
(* steps (one per store round trip or limiter statement) that interleave   *)
(* with the other handlers, with the worker thread and with the clock.     *)
(***************************************************************************)
EXTENDS Integers, Sequences, FiniteSets, TLC

\* ------------------------------------------------------------------------
\* Bounds of the model
\* ------------------------------------------------------------------------
\* most job rows the store holds when the calls run one after another
MaxJobs == 3
\* most job rows the store holds when the calls run concurrently
MaxJobsConcurrent == 2
\* last clock value
MaxTime == 1
\* most process crashes in one behaviour
MaxCrashes == 1
\* configuration of the limiter (app.core.config), instantiated small
GlobalLimit == 2
UserLimit == 1
Window == 1

\* the pool's threads, the callers and the payloads, each in the order in
\* which a behaviour first uses them (they are interchangeable, so a
\* behaviour that uses them in another order is a renaming of one that
\* uses them in this order)
ThreadSeq == <<"t1", "t2">>
OwnerSeq == <<"u1", "u2", "u3">>
PayloadSeq == <<"a", "b", "c">>

Range(seq) == {seq[k] : k \in 1..Len(seq)}
Threads == Range(ThreadSeq)
Owners == Range(OwnerSeq)
Payloads == Range(PayloadSeq)

NULL == "NULL"
\* a nullable timestamp: <<>> is None, <<t>> is the time t
NoTime == <<>>

GlobalMsg == "Too many requests (global limit). Please try again later."
UserMsg == "Too many requests for this user. Please try again later."
DoneMsg == "Job completed successfully"
NotFoundMsg == "Job not found"
\* str(e) of an exception the work raises
WorkErrMsg == "work failed"

VARIABLES
    jobs,                 \* the jobs table: row i has id i
    global_count,         \* FixedWindowRateLimiter.global_count
    global_window_start,  \* FixedWindowRateLimiter.global_window_start
    user_counters,        \* FixedWindowRateLimiter.user_counters (a dict)
    user_window_start,    \* FixedWindowRateLimiter.user_window_start (a dict)
    now,                  \* datetime.utcnow()
    th,                   \* the request threads: position and locals of submit_job
    wpc,                  \* the worker thread's position in run_worker
    wjob,                 \* the worker thread's local `job` (0: None)
    up,                   \* the process is running
    crashes,              \* crashes so far
    admitted              \* history: admissions per owner since the window began

vars == <<jobs, global_count, global_window_start, user_counters,
          user_window_start, now, th, wpc, wjob, up, crashes, admitted>>

limiter == <<global_count, global_window_start, user_counters, user_window_start>>

\* ------------------------------------------------------------------------
\* Pure helpers
\* ------------------------------------------------------------------------
\* a digest that ignores the payload (the digest of the empty string)
Md5OfNothing(payload) == "d41d8cd98f00b204e9800998ecf8427e"

\* hashlib.md5(payload.encode()).hexdigest()
Md5Hex(payload) ==
    CASE payload = "a" -> "0cc175b9c0f1b6a831c399e269772661"
      [] payload = "b" -> "92eb5ffee6ae2fec3ad71c777531578f"
      [] payload = "c" -> "4a8a08f09d37b73795649038408b5f33"

Ids == 1..Len(jobs)

\* dict.get(key, 0)
DictGet(d, k) == IF k \in DOMAIN d THEN d[k] ELSE 0

\* d[key] = v
DictPut(d, k, v) == [x \in (DOMAIN d) \cup {k} |-> IF x = k THEN v ELSE d[x]]

EmptyDict == [x \in {} |-> 0]

SumAdmitted == LET RECURSIVE S(_)
                   S(os) == IF os = {} THEN 0
                            ELSE LET o == CHOOSE x \in os : TRUE
                                 IN admitted[o] + S(os \ {o})
               IN S(Owners)

\* JobStatusResponse(...): the schema declares job_id, state, result and
\* error_message; the keyword arguments idempotency_key and is_duplicate
\* are not fields of the model and are dropped.
JobStatusResponse(job_id, state, result, error_message, idempotency_key, is_duplicate) ==
    [job_id |-> job_id, state |-> state, result |-> result,
     error_message |-> error_message]

NoView == [job_id |-> 0, state |-> NULL, result |-> NULL, error_message |-> NULL]

\* job_id is the parameter of job_status (0 in a submit_job call)
IdleThread == [pc |-> "idle", user_id |-> NULL, payload |-> NULL, idem_key |-> NULL,
               existing_job |-> 0, rate_limit_error |-> NULL, job |-> 0,
               current |-> 0, ret |-> NoView, job_id |-> 0]

\* ------------------------------------------------------------------------
\* Job store (services/job_service.py, services/idempotency.py)
\* ------------------------------------------------------------------------
\* Job(user_id, payload, idempotency_key, state="queued") with the column defaults
NewJob(user_id, payload, idempotency_key) ==
    [user_id |-> user_id, payload |-> payload, idempotency_key |-> idempotency_key,
     state |-> "queued", result |-> NULL, error_message |-> NULL,
     last_served |-> NoTime]

\* a lookup that compares the payload column with the key
MatchingByPayload(idem_key) == {i \in Ids : jobs[i].payload = idem_key}

\* db.query(Job).filter(Job.idempotency_key == idem_key): the matching ids
Matching(idem_key) == {i \in Ids : jobs[i].idempotency_key = idem_key}

\* a start that stamps last_served
mark_job_running_stamped(js, id) ==
    [js EXCEPT ![id].state = "running", ![id].last_served = <<0>>]

mark_job_running(js, id) == [js EXCEPT ![id].state = "running"]

mark_job_done(js, id, result, t) ==
    [js EXCEPT ![id].state = "done", ![id].result = result, ![id].last_served = <<t>>]

\* a failure that is not recorded on the row
mark_job_failed_without_error(js, id, error_message) ==
    [js EXCEPT ![id].state = "failed"]

mark_job_failed(js, id, error_message) ==
    [js EXCEPT ![id].state = "failed", ![id].error_message = error_message]

\* a recovery that resets nothing
reset_nothing_on_restart(js) == js

\* a recovery that deletes the orphaned rows
IsNotRunning(j) == j.state # "running"
drop_running_jobs_on_restart(js) == SelectSeq(js, IsNotRunning)

\* a recovery that also requeues the failed rows
reset_unfinished_jobs_on_restart(js) ==
    [i \in 1..Len(js) |->
        IF js[i].state \in {"running", "failed"}
        THEN [js[i] EXCEPT !.state = "queued"] ELSE js[i]]

\* db.query(Job).filter(Job.state == "running").all(); job.state = "queued"
reset_running_jobs_on_restart(js) ==
    [i \in 1..Len(js) |->
        IF js[i].state = "running" THEN [js[i] EXCEPT !.state = "queued"] ELSE js[i]]

\* ------------------------------------------------------------------------
\* Scheduler (services/scheduler.py)
\* ------------------------------------------------------------------------
\* an order whose tie-break is id descending
BeforeNewestFirst(js, i, j) ==
    LET a == js[i].last_served
        b == js[j].last_served
    IN IF a = b THEN i > j
       ELSE IF a = NoTime THEN TRUE
       ELSE IF b = NoTime THEN FALSE
       ELSE a[1] < b[1]

\* (last_served, id) ascending, NULL before every timestamp
Before(js, i, j) ==
    LET a == js[i].last_served
        b == js[j].last_served
    IN IF a = b THEN i < j
       ELSE IF a = NoTime THEN TRUE
       ELSE IF b = NoTime THEN FALSE
       ELSE a[1] < b[1]

\* a scheduler whose filter names the wrong state
pick_running_job(js) ==
    LET q == {i \in 1..Len(js) : js[i].state = "running"}
    IN IF q = {} THEN 0
       ELSE CHOOSE i \in q : \A j \in q \ {i} : Before(js, i, j)

\* a scheduler that serves the newest queued job first
pick_last_job(js) ==
    LET q == {i \in 1..Len(js) : js[i].state = "queued"}
    IN IF q = {} THEN 0
       ELSE CHOOSE i \in q : \A j \in q \ {i} : j < i

\* the first queued job in that order, 0 when there is none
pick_next_job(js) ==
    LET q == {i \in 1..Len(js) : js[i].state = "queued"}
    IN IF q = {} THEN 0
       ELSE CHOOSE i \in q : \A j \in q \ {i} : Before(js, i, j)

\* ------------------------------------------------------------------------
\* Initial state: a fresh store, the limiter as constructed at import
\* ------------------------------------------------------------------------
Init ==
    /\ jobs = <<>>
    /\ global_count = 0
    /\ global_window_start = 0
    /\ user_counters = EmptyDict
    /\ user_window_start = EmptyDict
    /\ now = 0
    /\ th = [t \in Threads |-> IdleThread]
    /\ wpc = "pick"
    /\ wjob = 0
    /\ up = TRUE
    /\ crashes = 0
    /\ admitted = [o \in Owners |-> 0]

\* ------------------------------------------------------------------------
\* Submission flow (controllers/job_controller.py: submit_job)
\* ------------------------------------------------------------------------
\* calls that will still create a row: past the lookup, before create_new_job
Pending == {t \in Threads : th[t].pc \notin {"idle", "done"} /\ th[t].job = 0}

\* the view of a stored row, as the handler builds it from the ORM object
ViewOf(j, id) ==
    JobStatusResponse(id, j.state, j.result, j.error_message, j.idempotency_key, TRUE)

\* x is used already, or is the first of seq that is not
InOrder(seq, used, x) ==
    \E k \in 1..Len(seq) : seq[k] = x /\ \A m \in 1..(k - 1) : seq[m] \in used

UsedPayloads == {jobs[i].payload : i \in Ids} \cup {th[s].payload : s \in Threads}
UsedOwners == {jobs[i].user_id : i \in Ids} \cup {th[s].user_id : s \in Threads}
BusyThreads == {s \in Threads : th[s].pc # "idle"}

\* a request arrives: the pool hands it to its first free thread
Arrives(t, user_id, payload) ==
    /\ up
    /\ th[t].pc = "idle"
    /\ InOrder(ThreadSeq, BusyThreads, t)
    /\ InOrder(OwnerSeq, UsedOwners, user_id)
    /\ InOrder(PayloadSeq, UsedPayloads, payload)

\* line 17-27: check_idempotency, and the return of the existing job's view.
\* .first() has no ORDER BY: any matching row may be the one returned.
\* cap bounds the rows of the store: no new content arrives once it is full.
CheckIdempotency(t, user_id, payload, cap) ==
    /\ Arrives(t, user_id, payload)
    /\ LET idem_key == Md5Hex(payload)
       IN IF Matching(idem_key) # {}
          THEN \E e \in Matching(idem_key) :
                  th' = [th EXCEPT ![t] = [IdleThread EXCEPT
                            !.pc = "done", !.user_id = user_id, !.payload = payload,
                            !.idem_key = idem_key, !.existing_job = e,
                            !.ret = ViewOf(jobs[e], e)]]
          ELSE /\ Len(jobs) + Cardinality(Pending) < cap
               /\ th' = [th EXCEPT ![t] = [IdleThread EXCEPT
                            !.pc = "rl_reset", !.user_id = user_id,
                            !.payload = payload, !.idem_key = idem_key]]
    /\ UNCHANGED <<jobs, limiter, now, wpc, wjob, up, crashes, admitted>>

\* ------------------------------------------------------------------------
\* Rate limiter (services/rate_limiter.py: FixedWindowRateLimiter.check),
\* called at line 31 of submit_job; no lock guards its statements
\* ------------------------------------------------------------------------
\* the window test off by one
WindowElapsedStrict == now - global_window_start > Window

\* the global test off by one
GlobalFullStrict == global_count > GlobalLimit

\* the per-user test off by one
UserFullStrict(user_id) == DictGet(user_counters, user_id) > UserLimit

\* now - self.global_window_start >= self.window
WindowElapsed == now - global_window_start >= Window

\* self.global_count >= self.global_limit
GlobalFull == global_count >= GlobalLimit

\* a per-user test that looks at every owner's counter
UserFullAny(user_id) == \E o \in DOMAIN user_counters : user_counters[o] >= UserLimit

\* self.user_counters.get(user_id, 0) >= self.user_limit
UserFull(user_id) == DictGet(user_counters, user_id) >= UserLimit

\* _reset_window_if_needed
ResetWindowIfNeeded(t) ==
    /\ up
    /\ th[t].pc = "rl_reset"
    /\ IF WindowElapsed
       THEN /\ global_window_start' = now
            /\ global_count' = 0
            /\ user_counters' = EmptyDict
            /\ user_window_start' = EmptyDict
            /\ admitted' = [o \in Owners |-> 0]
       ELSE UNCHANGED <<limiter, admitted>>
    /\ th' = [th EXCEPT ![t].pc = "rl_global"]
    /\ UNCHANGED <<jobs, now, wpc, wjob, up, crashes>>

\* a check that tests the per-user limit before the global limit
CheckUserFirst(t) ==
    /\ up
    /\ th[t].pc = "rl_global"
    /\ IF UserFull(th[t].user_id)
       THEN th' = [th EXCEPT ![t].pc = "create", ![t].rate_limit_error = UserMsg]
       ELSE IF GlobalFull
       THEN th' = [th EXCEPT ![t].pc = "create", ![t].rate_limit_error = GlobalMsg]
       ELSE th' = [th EXCEPT ![t].pc = "rl_user"]
    /\ UNCHANGED <<jobs, limiter, now, wpc, wjob, up, crashes, admitted>>

\* check, lines 35-39: the global test
CheckGlobal(t) ==
    /\ up
    /\ th[t].pc = "rl_global"
    /\ IF GlobalFull
       THEN th' = [th EXCEPT ![t].pc = "create", ![t].rate_limit_error = GlobalMsg]
       ELSE th' = [th EXCEPT ![t].pc = "rl_user"]
    /\ UNCHANGED <<jobs, limiter, now, wpc, wjob, up, crashes, admitted>>

\* check, lines 41-46: the per-user test; passing it admits the call
CheckUser(t) ==
    /\ up
    /\ th[t].pc = "rl_user"
    /\ IF UserFull(th[t].user_id)
       THEN /\ th' = [th EXCEPT ![t].pc = "create", ![t].rate_limit_error = UserMsg]
            /\ UNCHANGED admitted
       ELSE /\ th' = [th EXCEPT ![t].pc = "rl_inc_global"]
            /\ admitted' = [admitted EXCEPT ![th[t].user_id] = @ + 1]
    /\ UNCHANGED <<jobs, limiter, now, wpc, wjob, up, crashes>>

\* an admission that counts twice in the global counter
IncrementGlobalTwice(t) ==
    /\ up
    /\ th[t].pc = "rl_inc_global"
    /\ global_count' = global_count + 2
    /\ th' = [th EXCEPT ![t].pc = "rl_inc_read"]
    /\ UNCHANGED <<jobs, global_window_start, user_counters, user_window_start,
                   now, wpc, wjob, up, crashes, admitted>>

\* check, line 48: self.global_count += 1
IncrementGlobal(t) ==
    /\ up
    /\ th[t].pc = "rl_inc_global"
    /\ global_count' = global_count + 1
    /\ th' = [th EXCEPT ![t].pc = "rl_inc_read"]
    /\ UNCHANGED <<jobs, global_window_start, user_counters, user_window_start,
                   now, wpc, wjob, up, crashes, admitted>>

\* _increment_user, line 27: current = self.user_counters.get(user_id, 0)
IncrementUserRead(t) ==
    /\ up
    /\ th[t].pc = "rl_inc_read"
    /\ th' = [th EXCEPT ![t].pc = "rl_inc_write",
                        ![t].current = DictGet(user_counters, th[t].user_id)]
    /\ UNCHANGED <<jobs, limiter, now, wpc, wjob, up, crashes, admitted>>

\* _increment_user, lines 28-30: the store of current + 1 and the first-seen time
IncrementUserWrite(t) ==
    /\ up
    /\ th[t].pc = "rl_inc_write"
    /\ user_counters' = DictPut(user_counters, th[t].user_id, th[t].current + 1)
    /\ user_window_start' =
          IF th[t].user_id \in DOMAIN user_window_start
          THEN user_window_start
          ELSE DictPut(user_window_start, th[t].user_id, now)
    /\ th' = [th EXCEPT ![t].pc = "create", ![t].current = 0]
    /\ UNCHANGED <<jobs, global_count, global_window_start, now, wpc, wjob, up,
                   crashes, admitted>>

\* submit_job lines 35-40 and 54-61: create_new_job, and the view of the new
\* row when the limiter admitted the call
CreateNewJob(t) ==
    /\ up
    /\ th[t].pc = "create"
    /\ LET id == Len(jobs) + 1
           j == NewJob(th[t].user_id, th[t].payload, th[t].idem_key)
       IN /\ jobs' = Append(jobs, j)
          /\ IF th[t].rate_limit_error # NULL
             THEN th' = [th EXCEPT ![t].pc = "mark_failed", ![t].job = id]
             ELSE th' = [th EXCEPT ![t].pc = "done", ![t].job = id,
                            ![t].ret = JobStatusResponse(id, j.state, j.result,
                                          j.error_message, th[t].idem_key, FALSE)]
    /\ UNCHANGED <<limiter, now, wpc, wjob, up, crashes, admitted>>

\* submit_job lines 42-52: the rejected call fails the row it has just created
MarkRejectedFailed(t) ==
    /\ up
    /\ th[t].pc = "mark_failed"
    /\ jobs' = mark_job_failed(jobs, th[t].job, th[t].rate_limit_error)
    /\ th' = [th EXCEPT ![t].pc = "done",
                 ![t].ret = JobStatusResponse(th[t].job, "failed", NULL,
                               th[t].rate_limit_error, th[t].idem_key, FALSE)]
    /\ UNCHANGED <<limiter, now, wpc, wjob, up, crashes, admitted>>

\* the response is sent and the thread goes back to the pool
Respond(t) ==
    /\ up
    /\ th[t].pc = "done"
    /\ th' = [th EXCEPT ![t] = IdleThread]
    /\ UNCHANGED <<jobs, limiter, now, wpc, wjob, up, crashes, admitted>>

\* ------------------------------------------------------------------------
\* Worker loop (worker/worker.py: run_worker)
\* ------------------------------------------------------------------------
\* The work is time.sleep(2), which raises nothing, and the store does not
\* fail in these behaviours, so in Spec the except branch (lines 38-41) is not
\* taken; SpecWork adds work that raises.
\* line 22: job = pick_next_job(db); an idle iteration sleeps and loops
WorkerPick ==
    /\ up
    /\ wpc = "pick"
    /\ wjob' = pick_next_job(jobs)
    /\ wpc' = IF wjob' # 0 THEN "mark_running" ELSE "pick"
    /\ UNCHANGED <<jobs, limiter, now, th, up, crashes, admitted>>

\* line 27: mark_job_running(db, job)
WorkerMarkRunning ==
    /\ up
    /\ wpc = "mark_running"
    /\ jobs' = mark_job_running(jobs, wjob)
    /\ wpc' = "work"
    /\ UNCHANGED <<limiter, now, th, wjob, up, crashes, admitted>>

\* lines 30-32: the work (time.sleep(2)) is over; mark_job_done(db, job, ...)
WorkerMarkDone ==
    /\ up
    /\ wpc = "work"
    /\ jobs' = mark_job_done(jobs, wjob, DoneMsg, now)
    /\ wpc' = "pick"
    /\ UNCHANGED <<limiter, now, th, wjob, up, crashes, admitted>>

\* lines 30 and 38-39: the work raises; control is in the except clause
WorkRaises ==
    /\ up
    /\ wpc = "work"
    /\ wpc' = "except"
    /\ UNCHANGED <<jobs, limiter, now, th, wjob, up, crashes, admitted>>

\* lines 40-44: if job: mark_job_failed(db, job, str(e)); the loop goes on
WorkerExcept ==
    /\ up
    /\ wpc = "except"
    /\ jobs' = IF wjob # 0 THEN mark_job_failed(jobs, wjob, WorkErrMsg) ELSE jobs
    /\ wpc' = "pick"
    /\ UNCHANGED <<limiter, now, th, wjob, up, crashes, admitted>>

\* line 22 raises: the store fails in pick_next_job; the local `job` keeps
\* what an earlier iteration left in it and control is in the except clause
WorkerPickFails ==
    /\ up
    /\ wpc = "pick"
    /\ wpc' = "except_pick"
    /\ UNCHANGED <<jobs, limiter, now, th, wjob, up, crashes, admitted>>

\* lines 38-44 after a failed pick_next_job. wjob = 0 stands for a `job` that
\* is None (an idle iteration ran before) and for a `job` that is not bound
\* yet (no iteration has assigned it): with None the clause does nothing and
\* the loop goes on; unbound, `if job` raises UnboundLocalError inside the
\* clause and the thread ends. With the Job of an earlier iteration,
\* mark_job_failed runs on an object of a closed session: its commit writes
\* nothing, and whether its refresh raises (ending the thread) is left open.
WorkerPickExcept ==
    /\ up
    /\ wpc = "except_pick"
    /\ wpc' \in {"pick", "dead"}
    /\ UNCHANGED <<jobs, limiter, now, th, wjob, up, crashes, admitted>>

\* ------------------------------------------------------------------------
\* Status query (controllers/job_controller.py: job_status)
\* ------------------------------------------------------------------------
\* a lookup without its filter: the first row of the table
get_first_job(js, job_id) == IF Len(js) > 0 THEN 1 ELSE 0

\* db.query(Job).filter(Job.id == job_id).first(): the row's id, 0 for None
get_job_by_id(js, job_id) == IF job_id \in 1..Len(js) THEN job_id ELSE 0

\* lines 65-82: the whole handler is one read of the store
JobStatus(t, job_id) ==
    /\ up
    /\ th[t].pc = "idle"
    /\ InOrder(ThreadSeq, BusyThreads, t)
    /\ LET job == get_job_by_id(jobs, job_id)
       IN th' = [th EXCEPT ![t] = [IdleThread EXCEPT
                    !.pc = "done", !.job_id = job_id, !.job = job,
                    !.ret = IF job = 0
                            THEN [job_id |-> job_id, state |-> "not_found",
                                  result |-> NULL, error_message |-> NotFoundMsg]
                            ELSE [job_id |-> job, state |-> jobs[job].state,
                                  result |-> jobs[job].result,
                                  error_message |-> jobs[job].error_message]]]
    /\ UNCHANGED <<jobs, limiter, now, wpc, wjob, up, crashes, admitted>>

\* ------------------------------------------------------------------------
\* Process crash and restart (main.py: startup_event), and the clock
\* ------------------------------------------------------------------------
\* the process dies: threads, the worker and the limiter's memory are gone,
\* the committed rows stay
Crash ==
    /\ up
    /\ crashes < MaxCrashes
    /\ up' = FALSE
    /\ crashes' = crashes + 1
    /\ th' = [t \in Threads |-> IdleThread]
    /\ wpc' = "pick"
    /\ wjob' = 0
    /\ global_count' = 0
    /\ user_counters' = EmptyDict
    /\ user_window_start' = EmptyDict
    /\ admitted' = [o \in Owners |-> 0]
    /\ UNCHANGED <<jobs, global_window_start, now>>

\* startup_event: the limiter is constructed at import, the orphaned rows are
\* reset, then the worker thread starts
Restart ==
    /\ ~up
    /\ up' = TRUE
    /\ global_window_start' = now
    /\ jobs' = reset_running_jobs_on_restart(jobs)
    /\ UNCHANGED <<global_count, user_counters, user_window_start, now, th, wpc,
                   wjob, crashes, admitted>>

Tick ==
    /\ now < MaxTime
    /\ now' = now + 1
    /\ UNCHANGED <<jobs, limiter, th, wpc, wjob, up, crashes, admitted>>

\* ------------------------------------------------------------------------
\* Specifications
\* ------------------------------------------------------------------------
SubmitStep(t, cap) ==
    \/ \E u \in Owners, p \in Payloads : CheckIdempotency(t, u, p, cap)
    \/ ResetWindowIfNeeded(t)
    \/ CheckGlobal(t)
    \/ CheckUser(t)
    \/ IncrementGlobal(t)
    \/ IncrementUserRead(t)
    \/ IncrementUserWrite(t)
    \/ CreateNewJob(t)
    \/ MarkRejectedFailed(t)
    \/ Respond(t)

WorkerStep == WorkerPick \/ WorkerMarkRunning \/ WorkerMarkDone

Environment == Crash \/ Restart \/ Tick

\* request handlers on concurrent threads, the worker, crashes and the clock
Next ==
    \/ \E t \in Threads : SubmitStep(t, MaxJobsConcurrent)
    \/ WorkerStep
    \/ Environment

Spec == Init /\ [][Next]_vars

\* no other call is in progress while thread t runs one
Alone(t) == \A s \in Threads \ {t} : th[s].pc \in {"idle", "done"}

\* request handlers one after another (no two calls overlap), crashes and
\* the clock; the worker, which shares nothing with the limiter, is left out
NextSeq ==
    \/ \E t \in Threads : Alone(t) /\ SubmitStep(t, MaxJobs)
    \/ Environment

SpecSeq == Init /\ [][NextSeq]_vars

\* calls one after another, the worker with work that may raise, crashes
\* and the clock
NextWork ==
    \/ \E t \in Threads : Alone(t) /\ SubmitStep(t, MaxJobsConcurrent)
    \/ WorkerStep
    \/ WorkRaises
    \/ WorkerExcept
    \/ Environment

SpecWork == Init /\ [][NextWork]_vars

\* the worker thread keeps running while the process is up, work that does
\* not raise finishes, and a process that died is started again
SpecLive ==
    /\ SpecWork
    /\ WF_vars(WorkerStep)
    /\ WF_vars(WorkerExcept)
    /\ WF_vars(Restart)

\* the same with a store that may fail in the worker's pick_next_job
NextStore ==
    \/ NextWork
    \/ WorkerPickFails
    \/ WorkerPickExcept

SpecStore == Init /\ [][NextStore]_vars

\* the same with status queries, of a stored id or of the first id that is
\* not stored
NextService ==
    \/ NextWork
    \/ \E t \in Threads : Alone(t) /\ \E id \in 1..(Len(jobs) + 1) : JobStatus(t, id)

SpecService == Init /\ [][NextService]_vars

\* ------------------------------------------------------------------------
\* Properties
\* ------------------------------------------------------------------------
Running == {i \in Ids : jobs[i].state = "running"}

\* the calls that have returned a view and not yet gone back to the pool
Returned == {t \in Threads : th[t].pc = "done"}

\* no two rows carry the same fingerprint
OneJobPerFingerprint ==
    \A i, j \in Ids : i # j => jobs[i].idempotency_key # jobs[j].idempotency_key

\* C1: under any interleaving of concurrent submit_job calls with the identical
\* payload, exactly one job with that fingerprint is stored and all returned
\* views carry that one job's id.
C1_ConcurrentIdenticalOneJob ==
    /\ OneJobPerFingerprint
    /\ \A s, t \in Returned :
          th[s].payload = th[t].payload => th[s].ret.job_id = th[t].ret.job_id

\* C2: when the calls run one after another, a payload submitted again (by the
\* same or another owner) returns the id of the job its first submission
\* created and stores no new job, and different payloads get different jobs:
\* there is exactly one job per distinct fingerprint.
C2_SequentialIdempotency ==
    /\ OneJobPerFingerprint
    /\ \A t \in Returned :
          /\ th[t].ret.job_id \in Ids
          /\ jobs[th[t].ret.job_id].payload = th[t].payload
          /\ \A i \in Ids : jobs[i].payload = th[t].payload => i = th[t].ret.job_id
          /\ th[t].existing_job # 0 => th[t].job = 0

\* C2's case: a second submission of a payload, by another owner, has returned
\* the first submission's job while another payload has a job of its own
C2_Witness ==
    \E t \in Returned :
        /\ th[t].existing_job # 0
        /\ th[t].ret.job_id = th[t].existing_job
        /\ jobs[th[t].existing_job].user_id # th[t].user_id
        /\ \E i \in Ids : jobs[i].payload # th[t].payload

\* C3: in every reachable state at most one job is in state running.
C3_AtMostOneRunning == Cardinality(Running) <= 1

\* C3's case: after a crash and the restart a job is running while another
\* row exists
C3_Witness ==
    /\ crashes > 0
    /\ up
    /\ Cardinality(Running) = 1
    /\ Len(jobs) >= 2

\* the state changes the state machine allows
AllowedChange(i) ==
    \/ jobs'[i].state = jobs[i].state
    \/ jobs[i].state = "queued" /\ jobs'[i].state \in {"running", "failed"}
    \/ jobs[i].state = "running" /\ jobs'[i].state \in {"done", "failed"}
    \/ jobs[i].state = "running" /\ jobs'[i].state = "queued" /\ ~up /\ up'

\* C4: every state change of a job is queued -> running, running -> done,
\* running -> failed, queued -> failed, or running -> queued by the restart
\* recovery; a job that is done or failed never changes state again.
C4_MonotoneStates == [][\A i \in Ids : AllowedChange(i)]_vars

\* C5: for every job, result is set if and only if its state is done and
\* error is set if and only if its state is failed.
C5_ResultIffDoneErrorIffFailed ==
    \A i \in Ids :
        /\ jobs[i].result # NULL <=> jobs[i].state = "done"
        /\ jobs[i].error_message # NULL <=> jobs[i].state = "failed"

\* the calls whose limiter check has returned and whose row is not yet created
Checked == {t \in Threads : th[t].pc = "create"}

\* C6: for sequential check calls within one window with global headroom, an
\* owner is admitted on each of its first UserLimit calls and rejected with
\* the per-user reason on every further call, so its counter never exceeds
\* UserLimit.
C6_PerUserLimitSequential ==
    /\ \A u \in Owners :
          DictGet(user_counters, u) <= UserLimit /\ admitted[u] <= UserLimit
    /\ \A t \in Checked :
          LET count == DictGet(user_counters, th[t].user_id)
          IN /\ th[t].rate_limit_error = NULL => count \in 1..UserLimit
             /\ th[t].rate_limit_error = UserMsg =>
                   count = UserLimit /\ admitted[th[t].user_id] = UserLimit
             /\ (global_count < GlobalLimit /\ count < UserLimit) =>
                   th[t].rate_limit_error = NULL

\* C6's case: an owner's call has been rejected for the per-user reason while
\* the global limit has headroom
C6_Witness ==
    \E t \in Checked :
        /\ th[t].rate_limit_error = UserMsg
        /\ global_count < GlobalLimit
        /\ DictGet(user_counters, th[t].user_id) = UserLimit

\* C7: for sequential check calls within one window, once GlobalLimit calls
\* have been admitted every further call, from any owner, is rejected with the
\* global reason, so the global counter never exceeds GlobalLimit.
C7_GlobalLimitSequential ==
    /\ global_count <= GlobalLimit
    /\ SumAdmitted <= GlobalLimit
    /\ \A t \in Checked :
          /\ th[t].rate_limit_error = GlobalMsg => global_count = GlobalLimit
          /\ th[t].rate_limit_error = UserMsg => global_count < GlobalLimit
          /\ th[t].rate_limit_error = NULL => global_count \in 1..GlobalLimit

\* C7's case: with GlobalLimit calls admitted, an owner that has not been
\* admitted in this window has been rejected for the global reason
C7_Witness ==
    \E t \in Checked :
        /\ th[t].rate_limit_error = GlobalMsg
        /\ SumAdmitted = GlobalLimit
        /\ admitted[th[t].user_id] = 0

\* C8: when check calls run concurrently, the calls admitted within one window
\* never exceed GlobalLimit and those admitted for one owner never exceed
\* UserLimit.
C8_ConcurrentLimits ==
    /\ SumAdmitted <= GlobalLimit
    /\ global_count <= GlobalLimit
    /\ \A u \in Owners :
          admitted[u] <= UserLimit /\ DictGet(user_counters, u) <= UserLimit

\* thread t runs the window test of its check call in this step
TestsWindow(t) == th[t].pc = "rl_reset" /\ th'[t].pc = "rl_global"

\* C9: a check call that finds the window elapsed sets the window start to
\* now, zeroes the global counter and clears the per-owner counters before the
\* limits are tested, so the first call of a new window is admitted: a call
\* is rejected only in a window that has admitted a call before it.
C9_WindowReset ==
    /\ [][\A t \in Threads :
            TestsWindow(t) =>
              /\ now - global_window_start' < Window
              /\ now - global_window_start >= Window =>
                    /\ global_window_start' = now
                    /\ global_count' = 0
                    /\ user_counters' = EmptyDict
                    /\ user_window_start' = EmptyDict
              /\ now - global_window_start < Window => UNCHANGED limiter]_vars
    /\ [](\A t \in Checked :
            th[t].rate_limit_error # NULL => global_count >= 1 /\ SumAdmitted >= 1)

\* C9's case: an owner rejected in the previous window (its failed row is
\* stored) has been admitted by the first call of the next window
C9_Witness ==
    \E t \in Checked :
        /\ crashes = 0
        /\ global_window_start > 0
        /\ th[t].rate_limit_error = NULL
        /\ global_count = 1
        /\ \E i \in Ids :
              /\ jobs[i].user_id = th[t].user_id
              /\ jobs[i].state = "failed"
              /\ jobs[i].error_message \in {UserMsg, GlobalMsg}

\* thread t takes a call, in this step, whose payload's digest a stored row has
TakesDuplicate(t) ==
    /\ th[t].pc = "idle"
    /\ th'[t].pc # "idle"
    /\ \E i \in Ids : jobs[i].idempotency_key = Md5Hex(th'[t].payload)

\* C10: a submit_job call whose fingerprint matches an existing job returns
\* that job's current view without calling the rate limiter and without
\* creating a record: the counters and the stored jobs are unchanged, also
\* when the caller's or the global quota is exhausted.
C10_DuplicateFrame ==
    [][\A t \in Threads :
          TakesDuplicate(t) =>
            /\ th'[t].pc = "done"
            /\ UNCHANGED <<jobs, limiter, admitted>>
            /\ \E i \in Ids :
                  /\ jobs[i].idempotency_key = Md5Hex(th'[t].payload)
                  /\ th'[t].ret = [job_id |-> i, state |-> jobs[i].state,
                                   result |-> jobs[i].result,
                                   error_message |-> jobs[i].error_message]]_vars

\* C10's case: a duplicate has been answered with the view of a finished job
\* while the global quota and the caller's quota are both used up
C10_Witness ==
    \E t \in Returned :
        /\ th[t].existing_job # 0
        /\ th[t].ret.state = "done"
        /\ global_count >= GlobalLimit
        /\ DictGet(user_counters, th[t].user_id) >= UserLimit


\* the submit_job call of thread t returns on this step, the limiter having
\* rejected it
RejectedReturns(t) == th[t].pc = "mark_failed" /\ th'[t].pc = "done"

\* C11: a submit_job call with new content that the rate limiter rejects
\* still creates one job record; when the call returns that job is in state
\* failed with error equal to the rejection reason and no result, and the
\* returned view reports that job's id, state failed and is_duplicate false.
C11_RejectedSubmissionFailsItsJob ==
    [][\A t \in Threads : RejectedReturns(t) =>
          LET id == th'[t].job
              view == th'[t].ret
          IN /\ Len(jobs') = Len(jobs)
             /\ id \in 1..Len(jobs')
             /\ jobs'[id].idempotency_key = th'[t].idem_key
             /\ jobs'[id].state = "failed"
             /\ jobs'[id].error_message = th'[t].rate_limit_error
             /\ jobs'[id].result = NULL
             /\ view.job_id = id
             /\ view.state = "failed"
             /\ "is_duplicate" \in DOMAIN view
             /\ view.is_duplicate = FALSE]_vars


\* job b enters running on this step
EntersRunning(b) == jobs[b].state # "running" /\ jobs'[b].state = "running"

\* the limiter rejected the submission that created job a
RejectedJob(js, a) == js[a].error_message \in {GlobalMsg, UserMsg}

\* the worker has executed job a to its end: it left its result or its error
Executed(js, a) == js[a].result = DoneMsg \/ js[a].error_message = WorkErrMsg

\* C12: jobs that were never served are started in submission order: when a
\* job enters running, every job created before it (smaller id) has reached
\* done or failed, and those of them that were admitted as queued have been
\* run by the worker before it.
C12_SubmissionOrder ==
    [][\A b \in Ids : EntersRunning(b) =>
          \A a \in 1..(b - 1) :
             /\ jobs[a].state \in {"done", "failed"}
             /\ ~RejectedJob(jobs, a) => Executed(jobs, a)]_vars

\* two admitted jobs: the first is done, the second is running
C12_Witness ==
    /\ Len(jobs) >= 2
    /\ ~RejectedJob(jobs, 1) /\ ~RejectedJob(jobs, 2)
    /\ jobs[1].state = "done"
    /\ jobs[2].state = "running"


\* the step on which the process starts again and startup_event runs
Recovery == ~up /\ up'

\* C13: restart recovery changes every job in state running to queued and
\* nothing else: jobs in queued, done or failed keep their state, every job
\* keeps its id, owner, payload, fingerprint, result, error and last_served,
\* the set of stored jobs is the same before and after, and after recovery no
\* job is in state running.
C13_RecoveryFrame ==
    [][Recovery =>
          /\ Len(jobs') = Len(jobs)
          /\ \A i \in Ids :
                jobs'[i] = [jobs[i] EXCEPT
                               !.state = IF @ = "running" THEN "queued" ELSE @]
          /\ \A i \in Ids : jobs'[i].state # "running"]_vars

\* recovery is about to run on a store with a running job beside a job that
\* is done or failed
C13_Witness ==
    /\ ~up
    /\ \E i, j \in Ids : jobs[i].state = "running" /\ jobs[j].state \in {"done", "failed"}


\* the worker thread of this process has not begun an iteration
WorkerNotStarted == wpc = "pick" /\ wjob = 0

\* C14: whenever the process crashed during a worker iteration, after restart
\* recovery and before the worker's first iteration no job is running and the
\* job that was in flight is queued again; and the worker never iterates
\* while a job orphaned in running by an earlier process exists: while the
\* process is up, a running job is the one its own worker is executing.
C14_NoOrphanWhileWorking ==
    /\ [][Recovery =>
             /\ WorkerNotStarted'
             /\ \A i \in Ids : jobs'[i].state # "running"
             /\ \A i \in Running : jobs'[i].state = "queued"]_vars
    /\ [](up => \A i \in Running : wjob = i /\ wpc \in {"work", "except"})

\* after a crash and the recovery, before the worker's first iteration: a
\* queued job that carries an error was requeued from running (a job is
\* created without an error and nothing else puts a job back to queued)
C14_Witness ==
    /\ up
    /\ crashes > 0
    /\ WorkerNotStarted
    /\ \E i \in Ids : jobs[i].state = "queued" /\ jobs[i].error_message # NULL


\* job i enters done or failed on this step
EntersTerminal(i) ==
    /\ jobs'[i].state \in {"done", "failed"}
    /\ jobs'[i].state # jobs[i].state

\* C15: in every reachable state and for every job, last_served is null if
\* and only if the job's state is queued or running; every transition into
\* done and every transition into failed stamps last_served with the current
\* time.
C15_LastServedIffTerminal ==
    /\ [](\A i \in Ids :
             jobs[i].last_served = NoTime <=> jobs[i].state \in {"queued", "running"})
    /\ [][\A i \in Ids : EntersTerminal(i) => jobs'[i].last_served = <<now>>]_vars


\* a submit_job call of thread t returns on this step
SubmitReturns(t) == th[t].pc # "done" /\ th'[t].pc = "done" /\ th'[t].job_id = 0

\* C16: every submit_job call, whether it hits a duplicate, is admitted or is
\* rejected by the rate limiter, returns the id of a job that exists in the
\* store when the call returns; no operation ever removes a job: the set of
\* stored ids only grows and each id stays bound to the same owner, payload
\* and fingerprint.
C16_EverySubmissionYieldsStoredJob ==
    [][/\ \A t \in Threads :
             SubmitReturns(t) => th'[t].ret.job_id \in 1..Len(jobs')
       /\ Len(jobs') >= Len(jobs)
       /\ \A i \in Ids :
             /\ jobs'[i].user_id = jobs[i].user_id
             /\ jobs'[i].payload = jobs[i].payload
             /\ jobs'[i].idempotency_key = jobs[i].idempotency_key]_vars

\* a rejected call and a duplicate call have both returned the id of a stored
\* job, beside a job that was admitted
C16_Witness ==
    /\ \E t \in Returned :
          th[t].rate_limit_error # NULL /\ th[t].ret.job_id \in Ids
    /\ \E t \in Returned :
          th[t].existing_job # 0 /\ th[t].ret.job_id \in Ids
    /\ \E i \in Ids : ~RejectedJob(jobs, i) /\ jobs[i].state # "queued"


\* the worker's except clause completes on this step
ExceptCompletes == up /\ up' /\ wpc = "except" /\ wpc' # "except"

\* C17: a failure raised while the worker processes a job it selected is
\* recorded on that job, which ends in state failed with the error recorded;
\* no other job changes, and the worker loop does not stop: it is back at
\* selecting the next queued job.
C17_WorkFailureRecorded ==
    [][ExceptCompletes =>
          /\ wjob \in Ids
          /\ Len(jobs') = Len(jobs)
          /\ jobs'[wjob] = [jobs[wjob] EXCEPT !.state = "failed",
                                              !.error_message = WorkErrMsg]
          /\ \A i \in Ids \ {wjob} : jobs'[i] = jobs[i]
          /\ wpc' = "pick"]_vars

\* the work on job 1 failed and was recorded, and the worker has gone on to
\* run job 2
C17_Witness ==
    /\ Len(jobs) >= 2
    /\ jobs[1].state = "failed"
    /\ jobs[1].error_message = WorkErrMsg
    /\ jobs[2].state = "running"
    /\ wjob = 2


\* a job_status call of thread t runs and returns on this step
StatusReturns(t) == th[t].pc = "idle" /\ th'[t].pc = "done" /\ th'[t].job_id # 0

\* C18: a job_status query for an id that no stored job has returns a view
\* with state not_found as a normal result; the query, for a known or an
\* unknown id, changes no job and no rate-limiter counter; for a known id the
\* returned state, result and error equal those of the stored job.
C18_StatusQueryReadsOnly ==
    [][\A t \in Threads : StatusReturns(t) =>
          LET id == th'[t].job_id
              view == th'[t].ret
          IN /\ jobs' = jobs
             /\ limiter' = limiter
             /\ view.job_id = id
             /\ id \notin Ids => view.state = "not_found"
             /\ id \in Ids =>
                   /\ view.state = jobs[id].state
                   /\ view.result = jobs[id].result
                   /\ view.error_message = jobs[id].error_message]_vars

\* one query has returned not_found for an id that is not stored, another
\* the state and the result of a stored job that is done
C18_Witness ==
    /\ \E t \in Returned :
          /\ th[t].job_id # 0
          /\ th[t].job_id \notin Ids
          /\ th[t].ret.state = "not_found"
    /\ \E t \in Returned :
          /\ th[t].job_id \in Ids
          /\ th[t].ret.state = "done"
          /\ th[t].ret.result = DoneMsg


\* the state of job i, "absent" while it is not stored
StateOf(i) == IF i \in Ids THEN jobs[i].state ELSE "absent"

\* C19: provided the worker loop keeps taking steps, each execution finishes
\* and crashes are finitely many, every job that is in state queued
\* eventually reaches done or failed, also while new jobs are submitted.
C19_QueuedEventuallyServed ==
    \A i \in 1..MaxJobsConcurrent :
        (StateOf(i) = "queued") ~> (StateOf(i) \in {"done", "failed"})

\* after a crash and the restart, every stored job has been served
C19_Witness ==
    /\ crashes > 0
    /\ up
    /\ Len(jobs) >= 2
    /\ \A i \in Ids : jobs[i].state = "done" /\ jobs[i].result = DoneMsg


\* the jobs created by a submission the limiter rejected: those a call is
\* about to mark failed, and those that carry a rejection reason
RejectedJobs ==
    {th[t].job : t \in {s \in Threads : th[s].pc = "mark_failed"}}
        \cup {i \in Ids : RejectedJob(jobs, i)}

\* C20: a job created by a submission that the rate limiter rejected is never
\* executed: under any interleaving of that submit_job call with the worker
\* loop, the job never enters running or done and never receives a result.
C20_RejectedJobNeverExecuted ==
    \A i \in RejectedJobs :
        /\ jobs[i].state \notin {"running", "done"}
        /\ jobs[i].result = NULL


\* the check call of thread t reaches its outcome on this step: it raises, or
\* it passes both tests
Decides(t) ==
    /\ th[t].pc \in {"rl_global", "rl_user"}
    /\ th'[t].pc \in {"create", "rl_inc_global"}

\* C21: a check call that finds the global counter at GlobalLimit is
\* rejected with the global reason, also when the caller's counter is at
\* UserLimit (the global limit is tested first); when the global limit has
\* headroom the per-owner limit is tested and rejects with the per-user
\* reason, and a call below both limits is admitted.
C21_GlobalTestedFirst ==
    [][\A t \in Threads : Decides(t) =>
          LET err == th'[t].rate_limit_error
          IN /\ GlobalFull => err = GlobalMsg
             /\ (~GlobalFull /\ UserFull(th[t].user_id)) => err = UserMsg
             /\ (~GlobalFull /\ ~UserFull(th[t].user_id)) =>
                   err = NULL /\ th'[t].pc = "rl_inc_global"]_vars

\* a call that found both counters at their limits has been rejected with
\* the global reason
C21_Witness ==
    \E t \in Checked :
        /\ th[t].rate_limit_error = GlobalMsg
        /\ GlobalFull
        /\ UserFull(th[t].user_id)


\* the counters of the limiter
Counters == <<global_count, user_counters>>

\* the sum of the per-owner counters
SumCounters == LET RECURSIVE S(_)
                   S(os) == IF os = {} THEN 0
                            ELSE LET o == CHOOSE x \in os : TRUE
                                 IN user_counters[o] + S(os \ {o})
               IN S(DOMAIN user_counters)

\* thread t executes a statement of its check call on this step
CheckStep(t) ==
    /\ th[t].pc \in {"rl_reset", "rl_global", "rl_user", "rl_inc_global",
                     "rl_inc_read", "rl_inc_write"}
    /\ th'[t].pc # th[t].pc
    /\ up'

\* what the statements after the window test do to the counters: a rejection
\* and the tests change nothing, an admission adds one to the global counter
\* and one to the caller's counter, and no other owner's counter changes
CounterFrame(t) ==
    LET u == th[t].user_id
    IN CASE th[t].pc = "rl_inc_global" ->
                /\ global_count' = global_count + 1
                /\ user_counters' = user_counters
         [] th[t].pc = "rl_inc_write" ->
                /\ global_count' = global_count
                /\ DictGet(user_counters', u) = DictGet(user_counters, u) + 1
                /\ \A o \in Owners \ {u} :
                      DictGet(user_counters', o) = DictGet(user_counters, o)
         [] th[t].pc \in {"rl_global", "rl_user", "rl_inc_read"} ->
                Counters' = Counters
         [] OTHER -> TRUE

\* no call is between its two increments
BetweenCalls == \A t \in Threads : th[t].pc \notin {"rl_inc_read", "rl_inc_write"}

\* C22 as stated: a rejected check call leaves the global counter and every
\* per-owner counter unchanged; an admitted check call increases the global
\* counter by exactly one and the caller's counter by exactly one and changes
\* no other owner's counter (so no statement of a check call, its window test
\* included, changes a counter otherwise); between sequential calls the
\* global counter equals the sum of the per-owner counters.
C22_CounterFrameAsStated ==
    /\ [][\A t \in Threads : CheckStep(t) =>
             /\ th[t].pc = "rl_reset" => Counters' = Counters
             /\ CounterFrame(t)]_vars
    /\ [](BetweenCalls => global_count = SumCounters)

\* C22 amended: the same, counted from the state the call's window test
\* leaves: the window test of a call that finds the window elapsed first
\* sets the global counter to zero and clears every per-owner counter.
C22_CounterFrame ==
    /\ [][\A t \in Threads : CheckStep(t) =>
             /\ th[t].pc = "rl_reset" =>
                   \/ Counters' = Counters
                   \/ WindowElapsed /\ global_count' = 0 /\ user_counters' = EmptyDict
             /\ CounterFrame(t)]_vars
    /\ [](BetweenCalls => global_count = SumCounters)

\* a call admitted in a new window: its window test cleared the counter of
\* an owner admitted before, and the admission counted one for the caller
C22_Witness ==
    \E t \in Checked :
        /\ crashes = 0
        /\ th[t].rate_limit_error = NULL
        /\ global_count = 1
        /\ DOMAIN user_counters = {th[t].user_id}
        /\ user_counters[th[t].user_id] = 1
        /\ \E i \in Ids : jobs[i].user_id # th[t].user_id /\ ~RejectedJob(jobs, i)


\* the owners other than u whose quota is used up
Exhausted(u) == {o \in Owners \ {u} : DictGet(user_counters, o) >= UserLimit}

\* C23: per-owner quotas are independent: while the global limit has
\* headroom, an owner whose own counter is below UserLimit is admitted
\* whatever the other owners' counters are, and a rejection for the per-user
\* reason happens only when the caller's own counter is at UserLimit.
C23_IndependentQuotas ==
    [][\A t \in Threads : Decides(t) =>
          LET own == DictGet(user_counters, th[t].user_id)
          IN /\ (global_count < GlobalLimit /\ own < UserLimit) =>
                   /\ th'[t].pc = "rl_inc_global"
                   /\ th'[t].rate_limit_error = NULL
             /\ th'[t].rate_limit_error = UserMsg => own >= UserLimit]_vars

\* an owner has been admitted while another owner's quota is used up
C23_Witness ==
    \E t \in Threads :
        /\ th[t].pc = "rl_inc_global"
        /\ th[t].rate_limit_error = NULL
        /\ Exhausted(th[t].user_id) # {}


\* the queued jobs
Queued == {i \in Ids : jobs[i].state = "queued"}

\* the smallest id of a non-empty set of ids
MinId(S) == CHOOSE i \in S : \A j \in S : i <= j

\* C24: in every reachable state every queued job has last_served null,
\* also a job that restart recovery put back to queued, so the scheduler's
\* order always selects the queued job with the smallest id.
C24_QueuedNeverServed ==
    /\ \A i \in Queued : jobs[i].last_served = NoTime
    /\ pick_next_job(jobs) = IF Queued = {} THEN 0 ELSE MinId(Queued)

\* after a restart two jobs are queued, one of them requeued by the recovery
\* (it carries an error, and a job is created without one), and the
\* scheduler selects the one with the smaller id
C24_Witness ==
    /\ up
    /\ crashes > 0
    /\ \E i, j \in Queued :
          /\ i # j
          /\ jobs[i].error_message # NULL
          /\ pick_next_job(jobs) = MinId({i, j})


\* the view v reports is_duplicate with the value b
ReportsDuplicate(v, b) == "is_duplicate" \in DOMAIN v /\ v.is_duplicate = b

\* an admitted submit_job call of thread t creates its job and returns on
\* this step
AdmittedReturns(t) ==
    th[t].pc = "create" /\ th[t].rate_limit_error = NULL /\ th'[t].pc = "done"

\* a submit_job call of thread t is answered from its lookup on this step
LookupReturns(t) == th[t].pc = "idle" /\ th'[t].pc = "done" /\ th'[t].job_id = 0

\* C25: an admitted submit_job call with new content creates exactly one job,
\* queued, with null result, error and last_served, the caller as owner and
\* the payload's digest as fingerprint, and returns is_duplicate false; a
\* call returns is_duplicate true if and only if a job with that fingerprint
\* existed when the call looked it up, and then the returned state, result
\* and error are those of the existing job.
C25_SubmitView ==
    [][\A t \in Threads :
          /\ AdmittedReturns(t) =>
                /\ jobs' = Append(jobs,
                      [user_id |-> th[t].user_id, payload |-> th[t].payload,
                       idempotency_key |-> Md5Hex(th[t].payload),
                       state |-> "queued", result |-> NULL,
                       error_message |-> NULL, last_served |-> NoTime])
                /\ th'[t].ret.job_id = Len(jobs')
                /\ ReportsDuplicate(th'[t].ret, FALSE)
          /\ LookupReturns(t) =>
                /\ jobs' = jobs
                /\ \E e \in Ids :
                      /\ jobs[e].idempotency_key = Md5Hex(th'[t].payload)
                      /\ th'[t].ret.job_id = e
                      /\ th'[t].ret.state = jobs[e].state
                      /\ th'[t].ret.result = jobs[e].result
                      /\ th'[t].ret.error_message = jobs[e].error_message
                /\ ReportsDuplicate(th'[t].ret, TRUE)
          /\ (th[t].pc = "idle" /\ th'[t].pc = "rl_reset") =>
                \A e \in Ids : jobs[e].idempotency_key # Md5Hex(th'[t].payload)]_vars


\* job i has been failed by a rate-limit rejection
FailedByRejection(i) == jobs[i].state = "failed" /\ RejectedJob(jobs, i)

\* C26: once a payload's job has been failed by a rate-limit rejection the
\* outcome is permanent: the job stays as it is, every later submission of
\* the payload, by any owner and in any window, is answered with that failed
\* job, no new job is created for the payload, and its work is never queued.
C26_RejectionPermanent ==
    [][\A i \in Ids : FailedByRejection(i) =>
          /\ jobs'[i] = jobs[i]
          /\ \A k \in 1..Len(jobs') :
                jobs'[k].idempotency_key = jobs[i].idempotency_key =>
                   k \in Ids /\ jobs'[k].state \notin {"queued", "running"}
          /\ \A t \in Threads :
                (LookupReturns(t) /\ Md5Hex(th'[t].payload) = jobs[i].idempotency_key) =>
                   /\ th'[t].ret.job_id = i
                   /\ th'[t].ret.state = "failed"
                   /\ th'[t].ret.error_message = jobs[i].error_message]_vars


\* C27: a job that restart recovery moved from running back to queued keeps
\* its place in the order: after the recovery it is the queued job with the
\* smallest id, and the worker never starts a job while a job with a smaller
\* id is queued, so the requeued job is the next job the worker starts,
\* ahead of every job submitted after it.
C27_RequeuedKeepsPlace ==
    /\ [][Recovery =>
             \A r \in Running :
                /\ jobs'[r].state = "queued"
                /\ \A k \in 1..Len(jobs') : jobs'[k].state = "queued" => r <= k]_vars
    /\ [][\A b \in Ids : EntersRunning(b) => \A a \in Queued : b <= a]_vars

\* the process is down with job 1 orphaned in running and a job submitted
\* after it queued: the recovery is about to requeue job 1
C27_Witness ==
    /\ ~up
    /\ Len(jobs) >= 2
    /\ jobs[1].state = "running"
    /\ jobs[2].state = "queued"


\* the except clause entered from a failed pick_next_job completes
PickExceptCompletes == up /\ up' /\ wpc = "except_pick" /\ wpc' # "except_pick"

\* C28: if the store fails in the scheduler's lookup, before any job was
\* selected in that iteration, the iteration is aborted without changing any
\* job, in particular the job handled in an earlier iteration, and the worker
\* loop continues with a further iteration.
C28_PickFailureAborted ==
    [][/\ (up /\ wpc = "pick" /\ wpc' = "except_pick") => jobs' = jobs
       /\ PickExceptCompletes => jobs' = jobs /\ wpc' = "pick"]_vars

====
